---------------------------- MODULE Spec2Model ----------------------------
(***************************************************************************)
(* A model of the software rasterizer of gdi-3d-renderer:                  *)
(*   src/KDZ/Renderer.cpp  (z-buffer, drawPoint, drawLine, fillPolygon,    *)
(*                          renderObject, NDCtoViewport)                   *)
(*   src/KDZ/Matrix.cpp    (perspective, barycentric)                      *)
(*                                                                         *)
(* Floats are modelled as extended rationals <<n, d>>: d > 0 is the finite *)
(* value n/d in lowest terms, <<1,0>> is +infinity, <<-1,0>> is -infinity  *)
(* and <<0,0>> is NaN.  Arithmetic is exact (no rounding, no signed zero); *)
(* the only rounded operation is the square root inside Vector3::len,      *)
(* which is taken to a fixed precision.                                    *)
(***************************************************************************)
EXTENDS Integers, Sequences, FiniteSets, TLC

(***************************************************************************)
(* Bounds of the model.                                                    *)
(***************************************************************************)
\* largest pixel coordinate an input vertex may have
MaxCoord == 3
\* number of renderer calls in one run of the full state machine
MaxOps == 2
\* Vector3::len is computed to 1/LenPrecision
LenPrecision == 8

(***************************************************************************)
(* Extended rational arithmetic (IEEE float modulo rounding).              *)
(***************************************************************************)
RECURSIVE Gcd(_, _)
Gcd(a, b) == IF b = 0 THEN a ELSE Gcd(b, a % b)

Abs(n) == IF n < 0 THEN -n ELSE n

Sgn(n) == IF n > 0 THEN 1 ELSE IF n < 0 THEN -1 ELSE 0

PosInf == <<1, 0>>
NegInf == <<-1, 0>>
NaN    == <<0, 0>>

Q(n) == <<n, 1>>

Norm(n, d) ==
    IF d = 0 THEN <<Sgn(n), 0>>
    ELSE LET g == Gcd(Abs(n), Abs(d))
             s == IF d < 0 THEN -1 ELSE 1
         IN  <<(s * n) \div g, (s * d) \div g>>

IsNaN(a)    == a = NaN
IsFinite(a) == a[2] # 0
IsInf(a)    == a[2] = 0 /\ a[1] # 0

Neg(a) == <<-a[1], a[2]>>

Add(a, b) ==
    IF IsNaN(a) \/ IsNaN(b) THEN NaN
    ELSE IF IsFinite(a) /\ IsFinite(b) THEN Norm(a[1] * b[2] + b[1] * a[2], a[2] * b[2])
    ELSE IF IsFinite(a) THEN b
    ELSE IF IsFinite(b) THEN a
    ELSE IF a = b THEN a ELSE NaN

Sub(a, b) == Add(a, Neg(b))

Mul(a, b) ==
    IF IsNaN(a) \/ IsNaN(b) THEN NaN
    ELSE IF IsFinite(a) /\ IsFinite(b) THEN Norm(a[1] * b[1], a[2] * b[2])
    ELSE <<Sgn(a[1]) * Sgn(b[1]), 0>>

\* x / 0 is +-infinity, 0 / 0 and inf / inf are NaN, x / inf is 0
Div(a, b) ==
    IF IsNaN(a) \/ IsNaN(b) THEN NaN
    ELSE IF IsInf(b) THEN (IF IsInf(a) THEN NaN ELSE Q(0))
    ELSE IF IsInf(a) THEN <<a[1] * (IF b[1] < 0 THEN -1 ELSE 1), 0>>
    ELSE Norm(a[1] * b[2], a[2] * b[1])

\* a > b, a < b, a == b of floats: every comparison with NaN is false
Gt(a, b) ==
    IF IsNaN(a) \/ IsNaN(b) THEN FALSE
    ELSE IF IsInf(a) THEN a[1] > 0 /\ b # a
    ELSE IF IsInf(b) THEN b[1] < 0
    ELSE a[1] * b[2] > b[1] * a[2]

Lt(a, b) == Gt(b, a)
Eq(a, b) == ~IsNaN(a) /\ a = b
Ge(a, b) == Gt(a, b) \/ Eq(a, b)
Le(a, b) == Ge(b, a)

\* (int) f : truncation toward zero of a finite float
Trunc(a) == IF a[1] >= 0 THEN a[1] \div a[2] ELSE -((-a[1]) \div a[2])

RECURSIVE ISqrtIn(_, _, _)
ISqrtIn(m, lo, hi) ==
    IF lo >= hi THEN lo
    ELSE LET mid == (lo + hi + 1) \div 2
         IN  IF mid * mid <= m THEN ISqrtIn(m, mid, hi) ELSE ISqrtIn(m, lo, mid - 1)

\* floor of the square root of a natural number (46340 is the largest
\* integer whose square fits TLC's 32-bit integers)
ISqrt(m) == ISqrtIn(m, 0, IF m < 46340 THEN m ELSE 46340)

IsSquare(m) == ISqrt(m) * ISqrt(m) = m

\* sqrt of a finite non-negative float: exact on squares of rationals,
\* rounded down to a multiple of 1/LenPrecision otherwise
Sqrt(a) ==
    IF IsSquare(a[1]) /\ IsSquare(a[2]) THEN Norm(ISqrt(a[1]), ISqrt(a[2]))
    ELSE Norm(ISqrt((a[1] * LenPrecision * LenPrecision) \div a[2]), LenPrecision)

(***************************************************************************)
(* Vector3, Vector4 and Matrix4 as the sources use them.                   *)
(***************************************************************************)
Vector3(x, y, z) == <<x, y, z>>
VAdd(a, b)   == <<Add(a[1], b[1]), Add(a[2], b[2]), Add(a[3], b[3])>>
VSub(a, b)   == <<Sub(a[1], b[1]), Sub(a[2], b[2]), Sub(a[3], b[3])>>
VScale(a, k) == <<Mul(a[1], k), Mul(a[2], k), Mul(a[3], k)>>
Dot(a, b)    == Add(Add(Mul(a[1], b[1]), Mul(a[2], b[2])), Mul(a[3], b[3]))
len(a)       == Sqrt(Dot(a, a))

\* a vertex with integer pixel coordinates and integer depth
IVec(x, y, z) == <<Q(x), Q(y), Q(z)>>

(***************************************************************************)
(* The renderer.  The operators below thread a record R through the calls  *)
(* of one public method:                                                   *)
(*   vx, vy  viewportX, viewportY                                          *)
(*   zb      zbuffer, a function on the index pairs allocated by the       *)
(*           constructor                                                   *)
(*   scr     the colour of every pixel of the Graphics surface             *)
(*   own     the brush of the latest FillRectangle anchored at each pixel  *)
(*   pts     the drawPoint calls made, in order, as <<x, y, z>>            *)
(*   fills   the FillRectangle calls made, in order, as <<x, y, brush>>    *)
(*   rows    the scanlines fillPolygon processed (first.y + i, as int)     *)
(*   inner   the largest number of iterations of drawLine's while loop     *)
(*           within one iteration of its for loop                          *)
(*   fault   TRUE once an array access threw IndexOutOfRangeException;     *)
(*           bad is the offending index                                    *)
(***************************************************************************)
Surface == (0 .. MaxCoord + 1) \X (0 .. MaxCoord + 1)

\* zbuffer[x, y] of a managed array: the index must lie in the allocation
InAlloc(zb, x, y) == <<x, y>> \in DOMAIN zb

Throw(R, x, y) == [R EXCEPT !.fault = TRUE, !.bad = <<x, y>>]

\* graphics->FillRectangle(br, x, y, 2, 2), clipped to the surface
FillRectangle(scr, br, x, y) ==
    [p \in DOMAIN scr |->
        IF p[1] \in {x, x + 1} /\ p[2] \in {y, y + 1} THEN br ELSE scr[p]]

\* the bounds check of drawPoint (and the same check admitting row and
\* column 0)
InViewportFromZero(R, x, y) == x >= 0 /\ x < R.vx /\ y >= 0 /\ y < R.vy
InViewport(R, x, y) == x > 0 /\ x < R.vx /\ y > 0 /\ y < R.vy

\* the z test of drawPoint (and two variants of it: smaller-is-nearer, and
\* z compared where 1/z is stored)
ZTestLess(R, x, y, z) == Lt(Div(Q(1), z), R.zb[<<x, y>>])
ZTestRaw(R, x, y, z) == Gt(z, R.zb[<<x, y>>])
ZTest(R, x, y, z) == Gt(Div(Q(1), z), R.zb[<<x, y>>])

drawPoint(R, x, y, z, br) ==
    IF R.fault THEN R
    ELSE LET S == [R EXCEPT !.pts = Append(@, <<x, y, z>>)]
         IN  IF ~InViewport(S, x, y) THEN S
             ELSE IF ~InAlloc(S.zb, x, y) THEN Throw(S, x, y)
             ELSE IF ZTest(S, x, y, z)
                  THEN [S EXCEPT !.zb[<<x, y>>] = Div(Q(1), z),
                                 !.scr = FillRectangle(@, br, x, y),
                                 !.own[<<x, y>>] = br,
                                 !.fills = Append(@, <<x, y, br>>)]
                  ELSE S

sign(x) == (IF x > 0 THEN 1 ELSE 0) - (IF x < 0 THEN 1 ELSE 0)

\* int e = 2 * dy - dx, after the swap of the deltas (and the same with the
\* deltas exchanged)
lineErrorSwapped(dx, dy) == 2 * dx - dy
lineError(dx, dy) == 2 * dy - dx

\* while (e >= 0) { if (isSwap) x += sx; else y += sy; e -= 2 * dx; }
RECURSIVE lineWhile(_, _)
lineWhile(L, n) ==
    IF L.e >= 0
    THEN lineWhile([L EXCEPT !.x = IF L.isSwap THEN @ + L.sx ELSE @,
                             !.y = IF L.isSwap THEN @ ELSE @ + L.sy,
                             !.e = @ - 2 * L.dx], n + 1)
    ELSE [L EXCEPT !.n = n]

\* for (int i = 1; i <= dx; i++, e += 2 * dy) { ... }
RECURSIVE lineFor(_, _, _, _, _)
lineFor(R, from, to, L, i) ==
    IF i > L.dx \/ R.fault THEN R
    ELSE LET fromXY == Vector3(from[1], from[2], Q(0))
             t  == Div(len(VSub(Vector3(Q(L.x), Q(L.y), Q(0)), fromXY)),
                       len(VSub(Vector3(to[1], to[2], Q(0)), fromXY)))
             z  == Add(Mul(Sub(Q(1), t), from[3]), Mul(t, to[3]))
             R1 == drawPoint(R, L.x, L.y, z, "Black")
             L1 == lineWhile(L, 0)
             L2 == [L1 EXCEPT !.x = IF L.isSwap THEN @ ELSE @ + L.sx,
                              !.y = IF L.isSwap THEN @ + L.sy ELSE @,
                              !.e = @ + 2 * L.dy]
         IN  lineFor([R1 EXCEPT !.inner = IF L1.n > @ THEN L1.n ELSE @],
                     from, to, L2, i + 1)

drawLine(R, from, to) ==
    LET x   == Trunc(from[1])
        y   == Trunc(from[2])
        dx0 == Abs(Trunc(Sub(to[1], Q(x))))
        dy0 == Abs(Trunc(Sub(to[2], Q(y))))
        sx  == sign(Trunc(Sub(to[1], Q(x))))
        sy  == sign(Trunc(Sub(to[2], Q(y))))
        isSwap == dy0 > dx0
        dx  == IF isSwap THEN dy0 ELSE dx0
        dy  == IF isSwap THEN dx0 ELSE dy0
    IN  lineFor(R, from, to,
                [x |-> x, y |-> y, dx |-> dx, dy |-> dy, sx |-> sx, sy |-> sy,
                 isSwap |-> isSwap, e |-> lineError(dx, dy), n |-> 0], 1)

drawPolygon(R, first, second, third) ==
    drawLine(drawLine(drawLine(R, first, second), second, third), third, first)

\* Util::barycentric(p, a, b, c): the weights (u, v, w)
barycentric(p, a, b, c) ==
    LET v0  == VSub(b, a)
        v1  == VSub(c, a)
        v2  == VSub(p, a)
        d00 == Dot(v0, v0)
        d01 == Dot(v0, v1)
        d11 == Dot(v1, v1)
        d20 == Dot(v2, v0)
        d21 == Dot(v2, v1)
        denom == Sub(Mul(d00, d11), Mul(d01, d01))
        v   == Div(Sub(Mul(d11, d20), Mul(d01, d21)), denom)
        w   == Div(Sub(Mul(d00, d21), Mul(d01, d20)), denom)
        u   == Sub(Sub(Q(1), v), w)
    IN  Vector3(u, v, w)

\* the three swaps that sort the copies by y
SortByY(a, b, c) ==
    LET s1 == IF Gt(a[2], b[2]) THEN <<b, a, c>> ELSE <<a, b, c>>
        s2 == IF Gt(s1[1][2], s1[3][2]) THEN <<s1[3], s1[2], s1[1]>> ELSE s1
    IN  IF Gt(s2[2][2], s2[3][2]) THEN <<s2[1], s2[3], s2[2]>> ELSE s2

\* for (int j = A.x; j <= B.x; j++) { ... drawPoint(j, first.y + i, z, br); }
RECURSIVE fillSpan(_, _, _, _, _, _, _)
fillSpan(R, j, Bx, yf, orig, zs, br) ==
    IF ~Le(Q(j), Bx) \/ R.fault THEN R
    ELSE LET coordinates == barycentric(Vector3(Q(j), yf, Q(0)), orig[1], orig[2], orig[3])
             z == Dot(coordinates, zs)
         IN  fillSpan(drawPoint(R, j, Trunc(yf), z, br), j + 1, Bx, yf, orig, zs, br)

\* for (int i = 0; i < totalHeight; i++) { ... }
RECURSIVE fillRows(_, _, _, _, _, _, _)
fillRows(R, i, totalHeight, sorted, orig, zs, br) ==
    IF ~(i < totalHeight) \/ R.fault THEN R
    ELSE LET first  == sorted[1]
             second == sorted[2]
             third  == sorted[3]
             secondHalf == Gt(Q(i), Sub(second[2], first[2])) \/ Eq(second[2], first[2])
             segmentHeight == Trunc(IF secondHalf THEN Sub(third[2], second[2])
                                                  ELSE Sub(second[2], first[2]))
             alpha == Div(Q(i), Q(totalHeight))
             beta  == Div(Sub(Q(i), IF secondHalf THEN Sub(second[2], first[2]) ELSE Q(0)),
                          Q(segmentHeight))
             A0 == VAdd(first, VScale(VSub(third, first), alpha))
             B0 == IF secondHalf THEN VAdd(second, VScale(VSub(third, second), beta))
                                 ELSE VAdd(first, VScale(VSub(second, first), beta))
             A  == IF Gt(A0[1], B0[1]) THEN B0 ELSE A0
             B  == IF Gt(A0[1], B0[1]) THEN A0 ELSE B0
             yf == Add(first[2], Q(i))
             R1 == [R EXCEPT !.rows = Append(@, Trunc(yf))]
         IN  fillRows(fillSpan(R1, Trunc(A[1]), B[1], yf, orig, zs, br),
                      i + 1, totalHeight, sorted, orig, zs, br)

fillPolygon(R, _first, _second, _third, br) ==
    IF Eq(_first[2], _second[2]) /\ Eq(_first[2], _third[2]) THEN R
    ELSE LET orig   == <<_first, _second, _third>>
             sorted == SortByY(_first, _second, _third)
             zs     == Vector3(sorted[1][3], sorted[2][3], sorted[3][3])
             totalHeight == Trunc(Sub(sorted[3][2], sorted[1][2]))
         IN  fillRows(R, 0, totalHeight, sorted, orig, zs, br)

\* Renderer::NDCtoViewport
NDCtoViewport(R, vertex) ==
    Vector3(Div(Mul(Add(Q(1), vertex[1]), Q(R.vx)), Q(2)),
            Div(Mul(Sub(Q(1), vertex[2]), Q(R.vy)), Q(2)),
            vertex[3])

(***************************************************************************)
(* Matrix4 (row-major, default identity), Vector4 and Polygon.             *)
(***************************************************************************)
Identity ==
    <<<<Q(1), Q(0), Q(0), Q(0)>>, <<Q(0), Q(1), Q(0), Q(0)>>,
      <<Q(0), Q(0), Q(1), Q(0)>>, <<Q(0), Q(0), Q(0), Q(1)>>>>

\* Matrix4::set(row, col, value), indices from 0
MSet(m, r, c, v) == [m EXCEPT ![r + 1][c + 1] = v]

\* Matrix4 * Vector4
MulVec(m, v) ==
    [r \in 1 .. 4 |->
        Add(Add(Mul(m[r][1], v[1]), Mul(m[r][2], v[2])),
            Add(Mul(m[r][3], v[3]), Mul(m[r][4], v[4])))]

\* Vector4::fromHomogeneous
fromHomogeneous(v) == Vector3(Div(v[1], v[4]), Div(v[2], v[4]), Div(v[3], v[4]))

\* Polygon::getTransformed: every vertex left-multiplied by the matrix
getTransformed(pol, m) == [k \in 1 .. 3 |-> MulVec(m, pol[k])]

\* Util::perspective, with tanHalfFov standing for tan(degToRad(fov) / 2)
\* (1 for fov = 90)
perspective(tanHalfFov, aspect, near, far) ==
    LET top    == Mul(near, tanHalfFov)
        bottom == Neg(top)
        right  == Mul(top, aspect)
        left   == Neg(right)
        p1 == MSet(Identity, 0, 0, Div(Mul(Q(2), near), Sub(right, left)))
        p2 == MSet(p1, 0, 2, Div(Add(right, left), Sub(right, left)))
        p3 == MSet(p2, 1, 1, Div(Mul(Q(2), near), Sub(top, bottom)))
        p4 == MSet(p3, 2, 2, Div(Neg(Add(far, near)), Sub(far, near)))
        p5 == MSet(p4, 3, 3, Q(0))
        p6 == MSet(p5, 2, 3, Div(Mul(Mul(Q(-2), far), near), Sub(far, near)))
    IN  MSet(p6, 3, 2, Q(-1))

\* Renderer::ztofile: the cells it reads, in loop order; the file is not modelled
ztofile(R) ==
    LET reads == {p \in ((R.vx \div 3) .. ((2 * R.vx) \div 3 - 1))
                        \X ((R.vy \div 3) .. ((2 * R.vy) \div 3 - 1)) : TRUE}
        out   == {p \in reads : ~InAlloc(R.zb, p[1], p[2])}
        bad   == CHOOSE p \in out :
                    \A q \in out : p[1] < q[1] \/ (p[1] = q[1] /\ p[2] <= q[2])
    IN  IF R.fault \/ out = {} THEN R ELSE Throw(R, bad[1], bad[2])

\* for (GL::Polygon pol : obj.polygons) { ... }
RECURSIVE renderPolygons(_, _, _, _, _, _, _)
renderPolygons(R, polygons, k, transformMatrix, wireframe, solid, i) ==
    IF k > Len(polygons) \/ R.fault THEN R
    ELSE LET transformed == getTransformed(polygons[k], transformMatrix)
             first  == NDCtoViewport(R, fromHomogeneous(transformed[1]))
             second == NDCtoViewport(R, fromHomogeneous(transformed[2]))
             third  == NDCtoViewport(R, fromHomogeneous(transformed[3]))
             R1 == IF wireframe THEN drawPolygon(R, first, second, third) ELSE R
             br == IF i % 2 = 1 THEN "Yellow" ELSE "Blue"
             R2 == IF solid THEN fillPolygon(R1, first, second, third, br) ELSE R1
         IN  renderPolygons(R2, polygons, k + 1, transformMatrix, wireframe, solid,
                            IF solid THEN i + 1 ELSE i)

renderObject(R, obj, transformMatrix, wireframe, solid) ==
    ztofile(renderPolygons(R, obj, 1, transformMatrix, wireframe, solid, 0))

\* Renderer::clearZBuffer
clearZBuffer(zb) == [p \in DOMAIN zb |-> NegInf]

(***************************************************************************)
(* State.                                                                  *)
(*   viewportX, viewportY, zbuffer   the Renderer's fields                 *)
(*   screen   the pixels of the Graphics surface                           *)
(*   owner    the brush of the latest FillRectangle anchored at each pixel *)
(*   hist     the public calls made since construction, [op, args]         *)
(*   out      what the latest call did: its drawPoint and FillRectangle    *)
(*            calls, scanlines, and whether it threw                       *)
(*   clip     the latest perspective(...) * point product                  *)
(***************************************************************************)
VARIABLES viewportX, viewportY, zbuffer, screen, owner, hist, out, clip

vars == <<viewportX, viewportY, zbuffer, screen, owner, hist, out, clip>>

NoOut == [pts |-> <<>>, fills |-> <<>>, rows |-> <<>>, inner |-> 0,
          fault |-> FALSE, bad |-> <<>>]

\* the renderer as a method finds it
Cur ==
    [vx |-> viewportX, vy |-> viewportY, zb |-> zbuffer, scr |-> screen,
     own |-> owner, pts |-> <<>>, fills |-> <<>>, rows |-> <<>>, inner |-> 0,
     fault |-> FALSE, bad |-> <<>>]

\* the renderer as a method leaves it
Commit(R, op, args) ==
    /\ zbuffer' = R.zb
    /\ screen' = R.scr
    /\ owner' = R.own
    /\ out' = [pts |-> R.pts, fills |-> R.fills, rows |-> R.rows,
               inner |-> R.inner, fault |-> R.fault, bad |-> R.bad]
    /\ hist' = Append(hist, [op |-> op, args |-> args])
    /\ UNCHANGED <<viewportX, viewportY, clip>>

\* Renderer::Renderer(im, viewportWidth, viewportHeight): gcnew array<float, 2>
\* is zero-initialised, and the constructor does not call clearZBuffer
Constructed(viewportWidth, viewportHeight) ==
    /\ zbuffer = [p \in (0 .. viewportWidth - 1) \X (0 .. viewportHeight - 1) |-> Q(0)]
    /\ viewportX = viewportWidth
    /\ viewportY = viewportHeight
    /\ screen = [p \in Surface |-> "None"]
    /\ owner = [p \in Surface |-> "None"]
    /\ hist = <<>>
    /\ out = NoOut
    /\ clip = <<>>

(***************************************************************************)
(* Inputs.                                                                 *)
(***************************************************************************)
\* viewport and allocation sizes
Sizes == {2, MaxCoord + 1}

\* depths of vertices
Depths == {1, 2}

\* pixels handed to drawPoint: on the excluded first row and column, inside,
\* and beyond the largest viewport
PointPixels ==
    {<<0, 1>>, <<1, 0>>, <<1, 1>>, <<MaxCoord, MaxCoord>>, <<MaxCoord + 1, 1>>}

\* depths handed to drawPoint
PointDepths == {-1, 1, 2}

\* segments in screen space
Lines ==
    {<<IVec(1, 1, 1), IVec(MaxCoord, 1, 1)>>,
     <<IVec(0, MaxCoord, 2), IVec(MaxCoord, 1, 1)>>}

\* triangles in screen space; the second one is passed bottom vertex first
Triangles ==
    {<<IVec(1, 1, 1), IVec(MaxCoord, 1, 1), IVec(1, MaxCoord, 2)>>,
     <<IVec(1, MaxCoord, 2), IVec(1, 1, 1), IVec(MaxCoord, MaxCoord, 1)>>}

\* the triangle drawn as a wireframe
WireTriangles == {<<IVec(1, 1, 1), IVec(MaxCoord, 1, 1), IVec(1, MaxCoord, 2)>>}

\* polygons in eye space (camera looking down -z), Vector4 vertices
Vector4(x, y, z, w) == <<Q(x), Q(y), Q(z), Q(w)>>
PolygonA == <<Vector4(-1, -1, -1, 1), Vector4(1, -1, -1, 1), Vector4(-1, 1, -2, 1)>>
PolygonB == <<Vector4(1, 1, -2, 1), Vector4(-1, 1, -1, 1), Vector4(1, -1, -2, 1)>>
Objects == {<<PolygonA, PolygonB>>}

\* transform matrices: none, and perspective(90, 1, 1, 3)
Matrices == {Identity, perspective(Q(1), Q(1), Q(1), Q(3))}

Init == \E w \in Sizes, h \in Sizes : Constructed(w, h)

(***************************************************************************)
(* The public methods.                                                     *)
(***************************************************************************)
SetViewport(width, height) ==
    /\ viewportX' = width
    /\ viewportY' = height
    /\ hist' = Append(hist, [op |-> "setViewport", args |-> <<width, height>>])
    /\ out' = NoOut
    /\ UNCHANGED <<zbuffer, screen, owner, clip>>

ClearScreen ==
    /\ screen' = [p \in Surface |-> "White"]
    /\ owner' = [p \in Surface |-> "None"]
    /\ hist' = Append(hist, [op |-> "clearScreen", args |-> <<>>])
    /\ out' = NoOut
    /\ UNCHANGED <<viewportX, viewportY, zbuffer, clip>>

ClearZBuffer ==
    /\ zbuffer' = clearZBuffer(zbuffer)
    /\ hist' = Append(hist, [op |-> "clearZBuffer", args |-> <<>>])
    /\ out' = NoOut
    /\ UNCHANGED <<viewportX, viewportY, screen, owner, clip>>

DrawPoint(x, y, z, br) ==
    Commit(drawPoint(Cur, x, y, Q(z), br), "drawPoint", <<x, y, Q(z), br>>)

DrawLine(from, to) ==
    Commit(drawLine(Cur, from, to), "drawLine", <<from, to>>)

DrawPolygon(first, second, third) ==
    Commit(drawPolygon(Cur, first, second, third), "drawPolygon", <<first, second, third>>)

FillPolygon(first, second, third, br) ==
    Commit(fillPolygon(Cur, first, second, third, br), "fillPolygon",
           <<first, second, third, br>>)

RenderObject(obj, transformMatrix, wireframe, solid) ==
    Commit(renderObject(Cur, obj, transformMatrix, wireframe, solid), "renderObject",
           <<obj, transformMatrix, wireframe, solid>>)

\* the full state machine makes MaxOps calls
Ready == Len(hist) < MaxOps

Next ==
    \/ \E w \in Sizes, h \in Sizes : Ready /\ SetViewport(w, h)
    \/ Ready /\ ClearScreen
    \/ Ready /\ ClearZBuffer
    \/ \E p \in PointPixels, z \in PointDepths :
          Ready /\ DrawPoint(p[1], p[2], z, "Black")
    \/ \E l \in Lines : Ready /\ DrawLine(l[1], l[2])
    \/ \E t \in WireTriangles : Ready /\ DrawPolygon(t[1], t[2], t[3])
    \/ \E t \in Triangles : Ready /\ FillPolygon(t[1], t[2], t[3], "Blue")
    \/ \E obj \in Objects, m \in Matrices, solid \in BOOLEAN :
          Ready /\ RenderObject(obj, m, ~solid, solid)

Spec == Init /\ [][Next]_vars

(***************************************************************************)
(* drawLine alone, on every pair of integer endpoints of a small box       *)
(* (coordinates below zero and beyond the viewport included).              *)
(***************************************************************************)
LineCoords == -1 .. MaxCoord + 1

LineEnds == {IVec(x, y, z) : x \in LineCoords, y \in LineCoords, z \in Depths}

InitLine == Constructed(MaxCoord + 1, MaxCoord + 1)

NextLine == \E from \in LineEnds, to \in LineEnds : hist = <<>> /\ DrawLine(from, to)

SpecLine == InitLine /\ [][NextLine]_vars

(***************************************************************************)
(* Two fillPolygon calls on a cleared z-buffer: triangle A with the Blue   *)
(* brush, then triangle B with the Yellow brush.                           *)
(***************************************************************************)
Shapes ==
    {<<<<1, 1>>, <<MaxCoord, 1>>, <<1, MaxCoord>>>>,
     <<<<MaxCoord, MaxCoord>>, <<1, MaxCoord>>, <<MaxCoord, 1>>>>,
     <<<<1, 1>>, <<MaxCoord, 2>>, <<2, MaxCoord>>>>,
     <<<<1, MaxCoord>>, <<1, 1>>, <<MaxCoord, MaxCoord>>>>,
     <<<<0, 0>>, <<MaxCoord, 0>>, <<0, MaxCoord>>>>,
     <<<<2, 1>>, <<MaxCoord, MaxCoord>>, <<1, MaxCoord>>>>}

OrderTriangles ==
    {<<IVec(s[1][1], s[1][2], z1), IVec(s[2][1], s[2][2], z2), IVec(s[3][1], s[3][2], z3)>> :
        s \in Shapes, z1 \in Depths, z2 \in Depths, z3 \in Depths}

InitOrder == Constructed(MaxCoord + 1, MaxCoord + 1)

ClearFirst == hist = <<>> /\ ClearZBuffer

FillA ==
    \E t \in OrderTriangles :
        Len(hist) = 1 /\ hist[1].op = "clearZBuffer" /\ FillPolygon(t[1], t[2], t[3], "Blue")

FillB ==
    \E t \in OrderTriangles :
        Len(hist) = 2 /\ hist[2].op = "fillPolygon" /\ FillPolygon(t[1], t[2], t[3], "Yellow")

NextOrder == ClearFirst \/ FillA \/ FillB

SpecOrder == InitOrder /\ [][NextOrder]_vars

(***************************************************************************)
(* perspective(fov, aspect, near, far) applied to an eye-space point       *)
(* between the near and the far plane.                                     *)
(***************************************************************************)
\* largest far plane, besides the plane at 100
MaxFar == 4

Nears == 1 .. MaxFar - 1
Fars(near) == ((near + 1) .. MaxFar) \cup {100}
EyeDepths(near, far) == {-near, -(near + 1), -far}
TanHalfFovs == {Q(1), Norm(1, 2)}
Aspects == {Q(1), Q(2)}

InitPersp == Constructed(2, 2)

Project(tanHalfFov, aspect, near, far, point) ==
    /\ clip = <<>>
    /\ clip' = [tanHalfFov |-> tanHalfFov, aspect |-> aspect, near |-> near, far |-> far,
                point |-> point,
                v |-> MulVec(perspective(tanHalfFov, aspect, Q(near), Q(far)), point)]
    /\ UNCHANGED <<viewportX, viewportY, zbuffer, screen, owner, hist, out>>

NextPersp ==
    \E t \in TanHalfFovs, a \in Aspects, near \in Nears :
        \E far \in Fars(near) :
            \E z \in EyeDepths(near, far), x \in {0, 1} :
                Project(t, a, near, far, Vector4(x, 0, z, 1))

SpecPersp == InitPersp /\ [][NextPersp]_vars

(***************************************************************************)
(* Properties.                                                             *)
(***************************************************************************)
Last(h) == h[Len(h)]
LastOp == IF hist = <<>> THEN "none" ELSE Last(hist).op
LastArgs == Last(hist).args

\* the pixels of a sequence of drawPoint calls
PixelsOf(pts) == {<<pts[i][1], pts[i][2]>> : i \in 1 .. Len(pts)}

AllCells(zb, v) == \A p \in DOMAIN zb : zb[p] = v

\* C1: drawPoint(x, y, z, brush) writes 1/z to zbuffer[x, y] (and to no other
\* cell) and draws the pixel exactly when 0 < x < viewportX, 0 < y < viewportY
\* and 1/z is strictly greater than the value stored in zbuffer[x, y]; in
\* every other case nothing is drawn and no cell changes.  (A cell outside
\* the allocation stores no value: the read throws before anything is drawn.)
C1_DrawPointTestAndSet ==
    [][(hist' # hist /\ Last(hist').op = "drawPoint") =>
        LET a  == Last(hist').args
            x  == a[1]
            y  == a[2]
            z  == a[3]
            br == a[4]
            pass == /\ 0 < x /\ x < viewportX
                    /\ 0 < y /\ y < viewportY
                    /\ <<x, y>> \in DOMAIN zbuffer
                    /\ Gt(Div(Q(1), z), zbuffer[<<x, y>>])
        IN  IF pass
            THEN /\ zbuffer' = [zbuffer EXCEPT ![<<x, y>>] = Div(Q(1), z)]
                 /\ out'.fills = <<<<x, y, br>>>>
            ELSE /\ zbuffer' = zbuffer
                 /\ out'.fills = <<>>
                 /\ screen' = screen]_vars

\* C1 witness: a drawPoint that replaced the depth an earlier drawPoint had
\* stored at the same pixel
C1_Witness ==
    /\ Len(hist) = 2
    /\ hist[1].op = "drawPoint" /\ hist[2].op = "drawPoint"
    /\ hist[1].args[1] = hist[2].args[1] /\ hist[1].args[2] = hist[2].args[2]
    /\ Gt(hist[1].args[3], hist[2].args[3]) /\ Gt(hist[2].args[3], Q(0))
    /\ out.fills = <<<<hist[2].args[1], hist[2].args[2], hist[2].args[4]>>>>
    /\ zbuffer[<<hist[2].args[1], hist[2].args[2]>>] = Div(Q(1), hist[2].args[3])

\* C2: every cell holds -infinity right after construction and right after
\* clearZBuffer, so the first drawPoint on an in-bounds pixel with a real
\* non-zero z, of either sign, is drawn
C2_FreshBufferIsNegInf ==
    /\ hist = <<>> => AllCells(zbuffer, NegInf)
    /\ LastOp = "clearZBuffer" => AllCells(zbuffer, NegInf)
    /\ (/\ LastOp = "drawPoint"
        /\ Len(hist) = 1 \/ hist[Len(hist) - 1].op = "clearZBuffer"
        /\ InViewport(Cur, LastArgs[1], LastArgs[2])
        /\ InAlloc(zbuffer, LastArgs[1], LastArgs[2])
        /\ LastArgs[3] # Q(0))
       => out.fills # <<>>

\* the renderer the two fillPolygon calls of SpecOrder started from
OrderBase == [Cur EXCEPT !.zb = clearZBuffer(zbuffer),
                         !.scr = [p \in Surface |-> "None"],
                         !.own = [p \in Surface |-> "None"]]

\* triangle A (Blue) and triangle B (Yellow) of SpecOrder
TriA == hist[2].args
TriB == hist[3].args

\* B then A
Reverse ==
    fillPolygon(fillPolygon(OrderBase, TriB[1], TriB[2], TriB[3], "Yellow"),
                TriA[1], TriA[2], TriA[3], "Blue")

\* the 1/z each triangle leaves in a cleared z-buffer on its own
AloneA == fillPolygon(OrderBase, TriA[1], TriA[2], TriA[3], "Blue").zb
AloneB == fillPolygon(OrderBase, TriB[1], TriB[2], TriB[3], "Yellow").zb

\* C3 as stated: for two different triangles, A-then-B and B-then-A give the
\* same z-buffer and the same colour at every pixel, and a pixel covered by
\* both has the colour of the triangle whose 1/z is larger there
C3_OrderIndependentColours ==
    (Len(hist) = 3 /\ {TriA[1], TriA[2], TriA[3]} # {TriB[1], TriB[2], TriB[3]}) =>
        LET rev == Reverse
            za  == AloneA
            zb  == AloneB
        IN  /\ zbuffer = rev.zb
            /\ screen = rev.scr
            /\ \A p \in DOMAIN zbuffer :
                  (za[p] # NegInf /\ zb[p] # NegInf) =>
                      /\ Gt(za[p], zb[p]) => screen[p] = "Blue"
                      /\ Gt(zb[p], za[p]) => screen[p] = "Yellow"

\* C3 amended: A-then-B and B-then-A give the same z-buffer, and at every
\* pixel where one triangle's 1/z is strictly larger, the FillRectangle last
\* anchored at that pixel carries that triangle's brush in both orders
C3_OrderIndependentDepth ==
    Len(hist) = 3 =>
        LET rev == Reverse
            za  == AloneA
            zb  == AloneB
        IN  /\ zbuffer = rev.zb
            /\ \A p \in DOMAIN zbuffer :
                  /\ Gt(za[p], zb[p]) => (owner[p] = "Blue" /\ rev.own[p] = "Blue")
                  /\ Gt(zb[p], za[p]) => (owner[p] = "Yellow" /\ rev.own[p] = "Yellow")

\* C3 witness: two overlapping triangles, each nearer than the other somewhere
C3_Witness ==
    /\ Len(hist) = 3
    /\ LET za == AloneA
           zb == AloneB
       IN  /\ \E p \in DOMAIN zbuffer :
                 za[p] # NegInf /\ Gt(zb[p], za[p]) /\ owner[p] = "Yellow"
           /\ \E q \in DOMAIN zbuffer :
                 zb[q] # NegInf /\ Gt(za[q], zb[q]) /\ owner[q] = "Blue"

\* C4: no call other than clearZBuffer lowers the value of any z-buffer cell,
\* and renderObject resets no cell to -infinity
C4_DepthNeverDecreases ==
    [][(hist' # hist /\ Last(hist').op # "clearZBuffer") =>
        /\ DOMAIN zbuffer' = DOMAIN zbuffer
        /\ \A p \in DOMAIN zbuffer : Ge(zbuffer'[p], zbuffer[p])
        /\ Last(hist').op = "renderObject" =>
              \A p \in DOMAIN zbuffer : zbuffer'[p] = NegInf => zbuffer[p] = NegInf]_vars

\* C4 witness: a renderObject after a fillPolygon, some of whose pixels were
\* drawn and some rejected by the depths already stored
C4_Witness ==
    /\ Len(hist) = 2
    /\ hist[1].op = "fillPolygon" /\ hist[2].op = "renderObject"
    /\ ~out.fault
    /\ out.fills # <<>>
    /\ \E i \in 1 .. Len(out.pts) :
          /\ InViewport(Cur, out.pts[i][1], out.pts[i][2])
          /\ \A k \in 1 .. Len(out.fills) :
                <<out.fills[k][1], out.fills[k][2]>> # <<out.pts[i][1], out.pts[i][2]>>

\* C5: drawLine with integer endpoints submits both endpoints; the segment
\* (0,0,1)-(4,0,1) submits exactly (0,0) .. (4,0), each with depth 1; and
\* from = to submits at most the pixel from
C5_LineSubmitsBothEndpoints ==
    LastOp = "drawLine" =>
        LET from == LastArgs[1]
            to   == LastArgs[2]
            f    == <<Trunc(from[1]), Trunc(from[2])>>
            t    == <<Trunc(to[1]), Trunc(to[2])>>
        IN  /\ f # t => (f \in PixelsOf(out.pts) /\ t \in PixelsOf(out.pts))
            /\ f = t => (Len(out.pts) <= 1 /\ PixelsOf(out.pts) \subseteq {f})
            /\ (from = IVec(0, 0, 1) /\ to = IVec(4, 0, 1)) =>
                  out.pts = [i \in 1 .. 5 |-> <<i - 1, 0, Q(1)>>]

\* C6: fillPolygon on a triangle with integer y, not all equal, processes the
\* totalHeight + 1 scanlines first.y .. third.y
C6_ScanlinesInclusive ==
    (LastOp = "fillPolygon" /\ ~out.fault) =>
        LET sorted == SortByY(LastArgs[1], LastArgs[2], LastArgs[3])
            top    == Trunc(sorted[1][2])
            bottom == Trunc(sorted[3][2])
        IN  top # bottom => out.rows = [i \in 1 .. bottom - top + 1 |-> top + i - 1]

\* C7: the depth fillPolygon submits for a pixel is u*_first.z + v*_second.z
\* + w*_third.z for the weights (u, v, w) of barycentric(p, _first, _second,
\* _third), whatever the order the vertices are passed in
C7_DepthUsesMatchingVertex ==
    LastOp = "fillPolygon" =>
        \A i \in 1 .. Len(out.pts) :
            LET p == Vector3(Q(out.pts[i][1]), Q(out.pts[i][2]), Q(0))
                weights == barycentric(p, LastArgs[1], LastArgs[2], LastArgs[3])
            IN  out.pts[i][3] =
                    Dot(weights, Vector3(LastArgs[1][3], LastArgs[2][3], LastArgs[3][3]))

\* C8: for near < far and an eye-space point with -far <= z <= -near, the
\* perspective matrix gives w_clip = -z_eye and z_clip / w_clip in [0, 1]
C8_ClipDepthInUnitInterval ==
    clip # <<>> =>
        /\ clip.v[4] = Neg(clip.point[3])
        /\ Ge(Div(clip.v[3], clip.v[4]), Q(0))
        /\ Le(Div(clip.v[3], clip.v[4]), Q(1))

\* C9: drawLine on integer endpoints terminates after max(|dx|, |dy|) pixels;
\* the first pixel is from, each later pixel is one unit further along the
\* dominant axis (x when |dx| >= |dy|) and at most one unit off along the
\* other, the while loop runs at most once per iteration, and every pixel
\* lies in the bounding box of from and to
C9_BresenhamWalk ==
    LastOp = "drawLine" =>
        LET fx == Trunc(LastArgs[1][1])
            fy == Trunc(LastArgs[1][2])
            tx == Trunc(LastArgs[2][1])
            ty == Trunc(LastArgs[2][2])
            xDominant == Abs(tx - fx) >= Abs(ty - fy)
            pts == out.pts
        IN  /\ Len(pts) = (IF xDominant THEN Abs(tx - fx) ELSE Abs(ty - fy))
            /\ out.inner <= 1
            /\ pts # <<>> => (pts[1][1] = fx /\ pts[1][2] = fy)
            /\ \A i \in 2 .. Len(pts) :
                  LET stepX == Abs(pts[i][1] - pts[i - 1][1])
                      stepY == Abs(pts[i][2] - pts[i - 1][2])
                  IN  IF xDominant THEN stepX = 1 /\ stepY <= 1
                                   ELSE stepY = 1 /\ stepX <= 1
            /\ \A i \in 1 .. Len(pts) :
                  /\ pts[i][1] >= (IF fx < tx THEN fx ELSE tx)
                  /\ pts[i][1] <= (IF fx < tx THEN tx ELSE fx)
                  /\ pts[i][2] >= (IF fy < ty THEN fy ELSE ty)
                  /\ pts[i][2] <= (IF fy < ty THEN ty ELSE fy)

\* C9 witness: a steep line (y dominant) that also moved along x
C9_Witness ==
    /\ LastOp = "drawLine"
    /\ Len(out.pts) >= 3
    /\ Abs(Trunc(LastArgs[2][2]) - Trunc(LastArgs[1][2]))
          > Abs(Trunc(LastArgs[2][1]) - Trunc(LastArgs[1][1]))
    /\ \E i \in 2 .. Len(out.pts) : out.pts[i][1] # out.pts[i - 1][1]
    /\ out.inner = 1

\* C10: every read or write of zbuffer[x, y] uses an index inside the array
\* the constructor allocated, whatever setViewport was given
C10_AccessInsideAllocation == ~out.fault

=============================================================================
